---- MODULE Spec2Model ----
(***************************************************************************)
(* A model of the sudoku library: the position geometry (pos_util.rs), the *)
(* domain tracker and the three backtracking searches (board.rs), the      *)
(* board generator (board.rs), the puzzle generator (puzzle.rs) and the    *)
(* conversions between boards, strings and integer sequences (board.rs).   *)
(*                                                                         *)
(* A board is a function from the positions 0..80 to the values 0..9       *)
(* (0 = empty).  The recursion of backtracking / backtracking_count /      *)
(* backtracking_all is unfolded into an explicit stack of frames, one      *)
(* frame per active call, and the search advances one loop iteration, one  *)
(* call entry or one return at a time.  The generators call the searches   *)
(* many times over; there each call runs to its return within one step of  *)
(* the generator, by the same step functions.                              *)
(***************************************************************************)
EXTENDS Integers, Sequences, FiniteSets, TLC

\* ------------------------------------------------------------------------
\* Program constants (lib.rs)
\* ------------------------------------------------------------------------
N == 3
N2 == N * N
SIZE == N2 * N2

\* usize::MAX only ever serves as "larger than any length"; the largest
\* 32-bit signed integer plays that part here.
UsizeMax == 2147483647

Positions == 0 .. (SIZE - 1)
Digits == 1 .. N2
Bits == 0 .. (N2 - 1)

\* Option<usize>::None
None == -1

\* ------------------------------------------------------------------------
\* Bounds of the model
\* ------------------------------------------------------------------------
\* largest `max` handed to count_solutions / solve_all
MaxMax == 2
\* most cells blanked in the solved test board
MaxHoles == 4
\* most cells pre-assigned in a sparse board
MaxPokes == 2

\* ------------------------------------------------------------------------
\* Small helpers on sets and sequences
\* ------------------------------------------------------------------------
Range(s) == {s[k] : k \in DOMAIN s}

Min(S) == CHOOSE x \in S : \A y \in S : x <= y

\* the elements of a set of integers as an ascending sequence
RECURSIVE SortedSeq(_)
SortedSeq(S) == IF S = {} THEN <<>> ELSE <<Min(S)>> \o SortedSeq(S \ {Min(S)})

\* (a, b) < (c, d) in the lexicographic order of Rust tuples
PairLess(x, y) == x[1] < y[1] \/ (x[1] = y[1] /\ x[2] < y[2])

MinPair(S) == CHOOSE x \in S : \A y \in S : x = y \/ PairLess(x, y)

\* Vec<(_, _)>::sort_unstable on pairwise distinct pairs
RECURSIVE SortedPairs(_)
SortedPairs(S) ==
    IF S = {} THEN <<>> ELSE <<MinPair(S)>> \o SortedPairs(S \ {MinPair(S)})

\* ------------------------------------------------------------------------
\* Position geometry (pos_util.rs)
\* ------------------------------------------------------------------------
to_pos(row, col) == row * N2 + col

to_row_col(pos) == <<pos \div N2, pos % N2>>

row_positions(row) == [i \in 1 .. N2 |-> to_pos(row, i - 1)]

col_positions(col) == [i \in 1 .. N2 |-> to_pos(i - 1, col)]

group_positions(row, col) ==
    LET group_row == row - (row % N)
        group_col == col - (col % N)
    IN  [k \in 1 .. N2 |->
            to_pos(group_row + ((k - 1) \div N), group_col + ((k - 1) % N))]

\* a faulty variant of AdjacentPositionsIterator: row and col are swapped
SwappedIterator(row, col) ==
    [i |-> 0, row |-> col, col |-> row,
     group_row |-> col - (col % N), group_col |-> row - (row % N),
     phase |-> "Row", count |-> 0]

\* AdjacentPositionsIterator::new
AdjacentPositionsIterator(row, col) ==
    [i |-> 0, row |-> row, col |-> col,
     group_row |-> row - (row % N), group_col |-> col - (col % N),
     phase |-> "Row", count |-> 0]

\* a faulty variant of NextPhase: the group is left out
NextPhaseSkipsGroup(phase) ==
    CASE phase = "Row" -> "Column"
      [] OTHER -> "End"

\* a faulty variant of NextPhase: after the group the iterator starts over
NextPhaseAround(phase) ==
    CASE phase = "Row" -> "Column"
      [] phase = "Column" -> "Group"
      [] phase = "Group" -> "Row"
      [] OTHER -> "End"

NextPhase(phase) ==
    CASE phase = "Row" -> "Column"
      [] phase = "Column" -> "Group"
      [] phase = "Group" -> "End"
      [] OTHER -> "End"

\* AdjacentPositionsIterator::next: the item (<<>> for None, <<p>> for
\* Some(p)) and the iterator after the call.
RECURSIVE IterNext(_)
IterNext(it0) ==
    LET it == IF it0.i >= N2
              THEN [it0 EXCEPT !.phase = NextPhase(it0.phase), !.i = 0]
              ELSE it0
        skip == [it EXCEPT !.i = @ + 1]
        emit == [it EXCEPT !.i = @ + 1, !.count = @ + 1]
        g_row == it.group_row + (it.i \div N)
        g_col == it.group_col + (it.i % N)
    IN  CASE it.phase = "Row" ->
               IF it.i = it.col THEN IterNext(skip)
               ELSE [item |-> <<to_pos(it.row, it.i)>>, it |-> emit]
          [] it.phase = "Column" ->
               IF it.i = it.row THEN IterNext(skip)
               ELSE [item |-> <<to_pos(it.i, it.col)>>, it |-> emit]
          [] it.phase = "Group" ->
               IF g_row = it.row \/ g_col = it.col THEN IterNext(skip)
               ELSE [item |-> <<to_pos(g_row, g_col)>>, it |-> emit]
          [] OTHER -> [item |-> <<>>, it |-> it]

\* everything an iterator yields until its first None
RECURSIVE Drain(_)
Drain(it) ==
    LET r == IterNext(it)
    IN  IF r.item = <<>> THEN <<>> ELSE r.item \o Drain(r.it)

adjacent_positions(pos) ==
    Drain(AdjacentPositionsIterator(to_row_col(pos)[1], to_row_col(pos)[2]))

\* adjacent_positions of every position, computed once
AdjacentTable == [pos \in Positions |-> adjacent_positions(pos)]

Adjacent(pos) == AdjacentTable[pos]

AdjacentSetTable == [pos \in Positions |-> Range(AdjacentTable[pos])]

AdjacentSet(pos) == AdjacentSetTable[pos]

\* ------------------------------------------------------------------------
\* Domain tracker (board.rs, struct Domains)
\* ------------------------------------------------------------------------
AllTrue == [v \in Bits |-> TRUE]
AllFalse == [v \in Bits |-> FALSE]

\* the loop of update_domains over the peers adj[k], adj[k+1], ...: the bit
\* `bit` of each is set to false
RECURSIVE ClearFrom(_, _, _, _)
ClearFrom(doms, adj, k, bit) ==
    IF k > Len(adj) THEN doms
    ELSE ClearFrom([doms EXCEPT ![adj[k]][bit] = FALSE], adj, k + 1, bit)

\* a faulty variant of update_domains: pos stays among the empty positions
UpdateKeepsPosition(d, pos, value) ==
    [domains |-> ClearFrom(d.domains, Adjacent(pos), 1, value - 1),
     empty_positions |-> d.empty_positions]

\* Domains::update_domains(pos, value): clears bit value-1 of every peer of
\* pos and drops pos from the empty positions.
update_domains(d, pos, value) ==
    [domains |-> ClearFrom(d.domains, Adjacent(pos), 1, value - 1),
     empty_positions |-> d.empty_positions \ {pos}]

\* one iteration of the loop of calculate_domains, for the cell pos
CalculateCell(board, d, pos) ==
    IF board[pos] # 0
    THEN update_domains([d EXCEPT !.domains[pos] = AllFalse], pos, board[pos])
    ELSE [d EXCEPT !.empty_positions = @ \cup {pos}]

\* the loop of calculate_domains from the cell pos on.  (The comparison
\* d = d is true; it makes the checker evaluate d before it goes on, which
\* bounds the depth of its evaluation.)
RECURSIVE CalculateFrom(_, _, _)
CalculateFrom(board, d, pos) ==
    IF d = d /\ pos >= SIZE THEN d
    ELSE CalculateFrom(board, CalculateCell(board, d, pos), pos + 1)

\* Domains::calculate_domains
calculate_domains(board) ==
    CalculateFrom(board,
                  [domains |-> [p \in Positions |-> AllTrue],
                   empty_positions |-> {}],
                  0)

\* number of candidate bits set for pos
DomainCount(d, pos) == Cardinality({v \in Bits : d.domains[pos][v]})

\* ------------------------------------------------------------------------
\* Heuristics and legality (board.rs, impl SudokuBoard)
\* ------------------------------------------------------------------------
\* number of peers of pos that are empty on the board
pos_restrictions(board, pos) ==
    Cardinality({k \in 1 .. Len(Adjacent(pos)) : board[Adjacent(pos)[k]] = 0})

\* a faulty variant of get_empty_position: a large tie is not broken by the
\* number of empty peers, the first tied position is returned
EmptyPositionTieUnbroken(board, d, min_tie_to_solve) ==
    LET values == {<<DomainCount(d, p), p>> : p \in d.empty_positions}
    IN  IF values = {} THEN None ELSE MinPair(values)[2]

\* SudokuBoard::get_empty_position
get_empty_position(board, d, min_tie_to_solve) ==
    LET values == {<<DomainCount(d, p), p>> : p \in d.empty_positions}
    IN  IF values = {} THEN None
        ELSE LET first == MinPair(values)
                 min == first[1]
                 tied == {x[2] : x \in {y \in values : y[1] = min}}
                 min_restrictions ==
                     Min({pos_restrictions(board, p) : p \in tied})
             IN  IF Cardinality(tied) > min_tie_to_solve
                 THEN Min({p \in tied :
                              pos_restrictions(board, p) = min_restrictions})
                 ELSE first[2]

\* a faulty variant of get_possible: the candidates are never ranked, they
\* come in ascending order whatever their number
PossibleUnranked(board, pos, d, min_possible_ordered) ==
    SortedSeq({v + 1 : v \in {b \in Bits : d.domains[pos][b]}})

\* SudokuBoard::get_possible
get_possible(board, pos, d, min_possible_ordered) ==
    LET possible == SortedSeq({v + 1 : v \in {b \in Bits : d.domains[pos][b]}})
        acc(i) == Cardinality({p \in d.empty_positions : ~d.domains[p][i]})
        values == SortedPairs({<<acc(x - 1), x>> : x \in Range(possible)})
    IN  IF Len(possible) > min_possible_ordered
        THEN [k \in 1 .. Len(values) |-> values[k][2]]
        ELSE possible

\* SudokuBoard::still_possible
still_possible(board, d) ==
    ~ \E pos \in d.empty_positions : DomainCount(d, pos) = 0

\* SudokuBoard::is_valid
is_valid(board, pos, n) ==
    \A k \in 1 .. Len(Adjacent(pos)) : n # board[Adjacent(pos)[k]]

\* ------------------------------------------------------------------------
\* The state of one search: a call of solve, count_solutions or solve_all
\* with everything its recursive calls share.
\*   mode           "solve", "count" or "all": which search runs
\*   max_solutions  the max of count_solutions / solve_all
\*   orig           the caller's board as it was when the search was called
\*   work           the board the search runs on (self of backtracking*)
\*   domains        the Domains handed from call to call
\*   stack          one frame per active call, innermost last: its pos, the
\*                  candidates its loop has not tried yet, its temp_domains
\*                  and its count
\*   solutions      the Vec<SudokuBoard> solve_all fills
\*   retval         what the call that returned last has returned
\*   pc             "idle"  no search has been called
\*                  "call"  a call of backtracking* is being entered
\*                  "loop"  the innermost call is at the head of its loop
\*                  "ret"   a recursive call has returned into its caller
\*                  "done"  the outermost call has returned
\* ------------------------------------------------------------------------
\* a Domains value that is not initialised (let mut temp_domains: Domains;)
NoDomains == [domains |-> <<>>, empty_positions |-> {}]

NoSearch(b) ==
    [mode |-> "solve", max_solutions |-> 0, orig |-> b, work |-> b,
     domains |-> NoDomains, stack |-> <<>>, solutions |-> <<>>,
     retval |-> 0, pc |-> "idle"]

\* the head of solve / count_solutions / solve_all: the domains are
\* calculated and the outermost call is entered
StartSearch(b, m, max) ==
    [mode |-> m, max_solutions |-> max, orig |-> b, work |-> b,
     domains |-> calculate_domains(b), stack |-> <<>>, solutions |-> <<>>,
     retval |-> 0, pc |-> "call"]

Top(s) == s.stack[Len(s.stack)]

Pop(s) == SubSeq(s.stack, 1, Len(s.stack) - 1)

SetTop(s, f) == [s.stack EXCEPT ![Len(s.stack)] = f]

\* where a call that returns hands control: to its caller's loop, or out of
\* the search
AfterReturn(st) == IF st = <<>> THEN "done" ELSE "ret"

\* the count argument of the call that is being entered
ArgCount(s) == IF s.stack = <<>> THEN 0 ELSE Top(s).count

\* a faulty variant of PushSolution: after the first solution the same board
\* is pushed over again
PushFirstAgain(sols, b) == Append(sols, IF sols = <<>> THEN b ELSE sols[1])

\* solutions.push(self.clone())
PushSolution(sols, b) == Append(sols, b)

\* a faulty variant of LeafValue: solve reports failure on a full board
LeafReturnsFalse(m, count) == IF m = "solve" THEN FALSE ELSE 1 + count

\* what a call returns when no empty position is left
LeafValue(m, count) == IF m = "solve" THEN TRUE ELSE 1 + count

\* Entry of backtracking / backtracking_count / backtracking_all: with no
\* empty position left the call returns at once (pushing the board in
\* solve_all); otherwise it computes the candidates of its position and
\* starts its loop.
EnterStep(s) ==
    LET pos == get_empty_position(s.work, s.domains, SIZE \div 2)
    IN  IF pos = None
        THEN [s EXCEPT
                !.solutions = IF s.mode = "all" THEN PushSolution(@, s.work)
                              ELSE @,
                !.retval = LeafValue(s.mode, ArgCount(s)),
                !.pc = AfterReturn(s.stack)]
        ELSE [s EXCEPT
                !.stack = Append(@,
                            [pos |-> pos,
                             possible |-> get_possible(s.work, pos, s.domains, N),
                             temp_domains |-> NoDomains,
                             count |-> ArgCount(s)]),
                !.pc = "loop"]

\* a faulty variant of LimitReached: the limit is tested with > instead of >=
LimitPassed(m, count, max) == m # "solve" /\ count > max

\* `if count >= max_solutions { return count; }` at the head of the loop body
LimitReached(m, count, max) == m # "solve" /\ count >= max

\* One iteration of the loop `for n in get_possible(..)`, up to the recursive
\* call: stop at the limit, or skip an illegal value, or assign it, snapshot
\* and update the domains, and then either recurse or restore the snapshot.
TryStep(s) ==
    LET f == Top(s)
        n == Head(f.possible)
        rest == [f EXCEPT !.possible = Tail(f.possible)]
        updated == update_domains(s.domains, f.pos, n)
    IN  IF LimitReached(s.mode, f.count, s.max_solutions)
        THEN [s EXCEPT !.retval = f.count,
                       !.stack = Pop(s),
                       !.pc = AfterReturn(Pop(s))]
        ELSE IF ~is_valid(s.work, f.pos, n)
        THEN [s EXCEPT !.stack = SetTop(s, rest)]
        ELSE IF still_possible(s.work, updated)
        THEN [s EXCEPT !.work[f.pos] = n,
                       !.domains = updated,
                       !.stack = SetTop(s, [rest EXCEPT
                                               !.temp_domains = s.domains]),
                       !.pc = "call"]
        ELSE [s EXCEPT !.work[f.pos] = n,
                       !.stack = SetTop(s, rest)]

\* a faulty variant of ResumeStep: after the recursive call has returned the
\* same call is made again instead of going on with the loop
ResumeCallsAgain(s) == [s EXCEPT !.pc = "call"]

\* The recursive call has returned into the loop: solve returns true at once
\* when it returned true; otherwise the returned count is kept, the snapshot
\* of the domains is restored and the loop goes on.
ResumeStep(s) ==
    IF s.mode = "solve" /\ s.retval = TRUE
    THEN [s EXCEPT !.stack = Pop(s), !.pc = AfterReturn(Pop(s))]
    ELSE [s EXCEPT
            !.domains = Top(s).temp_domains,
            !.stack = SetTop(s, [Top(s) EXCEPT
                                   !.temp_domains = NoDomains,
                                   !.count = IF s.mode = "solve" THEN @
                                             ELSE s.retval]),
            !.pc = "loop"]

\* a faulty variant of ExhaustedValue: solve reports success when its loop
\* has run out of candidates
ExhaustedReturnsTrue(m, count) == IF m = "solve" THEN TRUE ELSE count

\* what a call returns once its loop has run out of candidates
ExhaustedValue(m, count) == IF m = "solve" THEN FALSE ELSE count

\* a faulty variant of ExhaustStep: the call returns without clearing its
\* position
ExhaustKeepsValue(s) ==
    [s EXCEPT !.retval = ExhaustedValue(s.mode, Top(s).count),
              !.stack = Pop(s),
              !.pc = AfterReturn(Pop(s))]

\* The loop is over: the position is cleared and the call returns false (or
\* its count).
ExhaustStep(s) ==
    [s EXCEPT !.work[Top(s).pos] = 0,
              !.retval = ExhaustedValue(s.mode, Top(s).count),
              !.stack = Pop(s),
              !.pc = AfterReturn(Pop(s))]

CanEnter(s) == s.pc = "call"
CanTry(s) == s.pc = "loop" /\ Top(s).possible # <<>>
CanResume(s) == s.pc = "ret"
CanExhaust(s) == s.pc = "loop" /\ Top(s).possible = <<>>

\* the next step of a search, whichever it is
Step(s) ==
    CASE CanEnter(s) -> EnterStep(s)
      [] CanTry(s) -> TryStep(s)
      [] CanResume(s) -> ResumeStep(s)
      [] CanExhaust(s) -> ExhaustStep(s)
      [] OTHER -> s

\* a search runs for at most 2^RunDepth steps when it is run as a whole
RunDepth == 20

\* s after up to 2^k steps
RECURSIVE RunFor(_, _)
RunFor(s, k) ==
    IF s.pc = "done" THEN s
    ELSE IF k = 0 THEN Step(s)
    ELSE RunFor(RunFor(s, k - 1), k - 1)

\* the search run until its outermost call has returned
Run(s) == RunFor(s, RunDepth)

\* ------------------------------------------------------------------------
\* State of the model
\* ------------------------------------------------------------------------
VARIABLES
    board,    \* the caller's board (self of solve / count_solutions /
              \* solve_all); `solution`, then `puzzle`, in the generators
    search,   \* the search that is running on it, step by step
    gpc,      \* where the generator stands ("off": no generator runs)
    gen,      \* the locals of SudokuBoard::generate
    cfg,      \* the seed and the fields of the Generator
    dig,      \* the locals of Generator::generate
    first,    \* the board of the first of two generations, <<>> before
    conv,     \* the conversion between boards, strings and integer
              \* sequences that was called last, with its argument and result
    iter      \* an AdjacentPositionsIterator in use, with the items it has
              \* yielded

gen_vars == <<gpc, gen, cfg, dig, first>>

aux_vars == <<conv, iter>>

vars == <<board, search, gen_vars, aux_vars>>

\* conv and iter while no conversion is called and no iterator is in use
NoConv == [op |-> "none"]
NoIter == [op |-> "none"]

\* a faulty variant of InPlace: every search runs on the caller's board
AlwaysInPlace(m) == TRUE

\* solve searches the caller's board in place (&mut self); count_solutions
\* and solve_all search self.clone().
InPlace(m) == m = "solve"

\* the caller's board once the search has taken the step to s
Written(s) == IF InPlace(s.mode) THEN s.work ELSE board

\* ------------------------------------------------------------------------
\* The three public searches, step by step
\* ------------------------------------------------------------------------
\* SudokuBoard::solve is called
CallSolve ==
    /\ search.pc = "idle"
    /\ search' = StartSearch(board, "solve", 0)
    /\ UNCHANGED <<board, gen_vars, aux_vars>>

\* SudokuBoard::count_solutions(max) is called
CallCountSolutions ==
    /\ search.pc = "idle"
    /\ \E max \in 0 .. MaxMax : search' = StartSearch(board, "count", max)
    /\ UNCHANGED <<board, gen_vars, aux_vars>>

\* SudokuBoard::solve_all(max) is called
CallSolveAll ==
    /\ search.pc = "idle"
    /\ \E max \in 0 .. MaxMax : search' = StartSearch(board, "all", max)
    /\ UNCHANGED <<board, gen_vars, aux_vars>>

Enter ==
    /\ CanEnter(search)
    /\ search' = EnterStep(search)
    /\ board' = Written(search')
    /\ UNCHANGED <<gen_vars, aux_vars>>

Try ==
    /\ CanTry(search)
    /\ search' = TryStep(search)
    /\ board' = Written(search')
    /\ UNCHANGED <<gen_vars, aux_vars>>

Resume ==
    /\ CanResume(search)
    /\ search' = ResumeStep(search)
    /\ board' = Written(search')
    /\ UNCHANGED <<gen_vars, aux_vars>>

Exhaust ==
    /\ CanExhaust(search)
    /\ search' = ExhaustStep(search)
    /\ board' = Written(search')
    /\ UNCHANGED <<gen_vars, aux_vars>>

\* ------------------------------------------------------------------------
\* The three public searches, as the generators call them: run as a whole
\* ------------------------------------------------------------------------
\* board.count_solutions(max)
count_solutions(b, max) == Run(StartSearch(b, "count", max)).retval

\* a faulty variant of solve: the search is not run at all
SolveSkipped(b) == [value |-> FALSE, board |-> b]

\* board.solve(): the value returned and the board afterwards
solve(b) ==
    LET s == Run(StartSearch(b, "solve", 0))
    IN  [value |-> s.retval, board |-> s.work]

\* board.solve_all(max)
solve_all(b, max) == Run(StartSearch(b, "all", max)).solutions

\* the generator's variables while no generator runs
NoGen == [rng |-> 0, domains |-> NoDomains, sustitutions |-> 0,
          empty_positions |-> <<>>, pos |-> 0, possible |-> <<>>]
NoCfg == [seed |-> 0, unique |-> TRUE, difficulty |-> "Normal"]
NoDig == [positions |-> <<>>, removed |-> 0, solution |-> <<>>]

\* ------------------------------------------------------------------------
\* Input boards
\* ------------------------------------------------------------------------
\* the solved board of tests::solve_1
SolvedLine ==
    << 5,4,2,9,7,1,6,3,8,
       9,1,7,3,8,6,2,5,4,
       8,3,6,5,4,2,7,9,1,
       7,2,3,8,5,9,1,4,6,
       4,6,9,1,2,3,8,7,5,
       1,5,8,4,6,7,3,2,9,
       3,8,4,7,1,5,9,6,2,
       6,9,5,2,3,8,4,1,7,
       2,7,1,6,9,4,5,8,3 >>

FromLine(line) == [p \in Positions |-> line[p + 1]]

Solved == FromLine(SolvedLine)

\* b with the cells of H emptied
Blank(b, H) == [p \in Positions |-> IF p \in H THEN 0 ELSE b[p]]

\* b with every cell holding a digit of D emptied
WithoutDigits(b, D) == [p \in Positions |-> IF b[p] \in D THEN 0 ELSE b[p]]

\* b with the cells named by the pairs <<pos, digit>> of P overwritten
Poke(b, P) ==
    [p \in Positions |->
        IF \E e \in P : e[1] = p THEN (CHOOSE e \in P : e[1] = p)[2] ELSE b[p]]

\* cells that may be emptied in the solved board: 7, 8, 79, 80 are a
\* rectangle holding 3 8 / 8 3
HolePositions == {7, 8, 79, 80}

\* overwrites of the solved board: 0 := 4 repeats the 4 of cell 1 in row 0;
\* 6 := 8 repeats the 8 of cell 8 in row 0
FullPokes == {<<0, 4>>, <<6, 8>>}

\* digits taken out of the solved board altogether
SparseDigits == {1, 2, 3}

\* assignments into the cells so emptied
SparsePokes == {<<58, 1>>, <<19, 1>>, <<54, 1>>, <<52, 2>>}

\* digit sets taken out with nothing else changed
PlainDigits == {{1, 2, 3, 4}, {1, 2, 3, 4, 5}}

\* the digits 1 to 5 taken out and two of them put back where the solved
\* board has them, in cells with no empty peer in common: the empty peers
\* of cell 0 cannot take 5, those of cell 33 cannot take 1, and all of them
\* have 4 candidates
RankedDigits == {1, 2, 3, 4, 5}
RankedPokes == {<<0, 5>>, <<33, 1>>}

InputBoards ==
    {Poke(Blank(Solved, H), P) :
        H \in {X \in SUBSET HolePositions : Cardinality(X) <= MaxHoles},
        P \in {X \in SUBSET FullPokes : Cardinality(X) <= 1}}
    \cup
    {Poke(WithoutDigits(Solved, SparseDigits), P) :
        P \in {X \in SUBSET SparsePokes : Cardinality(X) <= MaxPokes}}
    \cup
    {WithoutDigits(Solved, D) : D \in PlainDigits}
    \cup
    {Poke(WithoutDigits(Solved, RankedDigits), RankedPokes)}

\* ------------------------------------------------------------------------
\* Specification of the solver: one call of solve, count_solutions or
\* solve_all on an input board
\* ------------------------------------------------------------------------
Init ==
    /\ board \in InputBoards
    /\ search = NoSearch(board)
    /\ gpc = "off"
    /\ gen = NoGen
    /\ cfg = NoCfg
    /\ dig = NoDig
    /\ first = <<>>
    /\ conv = NoConv
    /\ iter = NoIter

Next ==
    \/ CallSolve \/ CallCountSolutions \/ CallSolveAll
    \/ Enter \/ Try \/ Resume \/ Exhaust

Spec == Init /\ [][Next]_vars

\* ------------------------------------------------------------------------
\* The random number generator.  Pcg64 is not modelled bit for bit: what the
\* generators rely on is that the stream is a function of the seed, and a
\* small linear congruential generator stands in for it.
\* ------------------------------------------------------------------------
RngModulus == 65537
RngMultiplier == 75
RngIncrement == 74

RngNext(r) == (r * RngMultiplier + RngIncrement) % RngModulus

\* Seeder::from(seed).make_rng()
make_rng(seed) == RngNext(seed)

\* rng.gen_range(lo..hi): the value drawn and the generator after the draw
gen_range(r, lo, hi) ==
    [value |-> lo + (RngNext(r) % (hi - lo)), rng |-> RngNext(r)]

Swap(v, i, j) == [v EXCEPT ![i] = v[j], ![j] = v[i]]

\* the loop of shuffle: for i in (1..len).rev() { swap(i, gen_index(i + 1)) }
\* (i counts the 1-based indices Len(v) down to 2)
RECURSIVE ShuffleFrom(_, _, _)
ShuffleFrom(v, r, i) ==
    IF v = v /\ i < 2 THEN [vec |-> v, rng |-> r]
    ELSE LET g == gen_range(r, 0, i)
         IN  ShuffleFrom(Swap(v, i, g.value + 1), g.rng, i - 1)

\* SliceRandom::shuffle
shuffle(v, r) == ShuffleFrom(v, r, Len(v))

\* Vec::remove(index), index counted from 0
RemoveAt(v, index) ==
    [k \in 1 .. (Len(v) - 1) |-> IF k <= index THEN v[k] ELSE v[k + 1]]

\* ------------------------------------------------------------------------
\* Iteration order of HashSet<usize>.  The order in which a HashSet yields
\* its elements is unspecified and differs from one set to the next; the
\* model lets it be any of NumOrders arrangements.
\* ------------------------------------------------------------------------
NumOrders == 2

Reverse(v) == [k \in 1 .. Len(v) |-> v[Len(v) + 1 - k]]

Rotate(v, n) == [k \in 1 .. Len(v) |-> v[((k - 1 + n) % Len(v)) + 1]]

\* the k-th arrangement of S: ascending, descending, then their rotations
Arrange(k, S) ==
    IF k % 2 = 1
    THEN Rotate(SortedSeq(S), (k - 1) \div 2)
    ELSE Rotate(Reverse(SortedSeq(S)), (k - 2) \div 2)

\* ------------------------------------------------------------------------
\* The heuristics of the search with the iteration of domains.empty_positions
\* spelled out: the vectors are built in the order the set yields its
\* elements and then sorted, as the code does.
\* ------------------------------------------------------------------------
\* v with the pair x put before the first element that is greater
RECURSIVE InsertPair(_, _)
InsertPair(v, x) ==
    IF v = <<>> THEN <<x>>
    ELSE IF PairLess(x, Head(v)) THEN <<x>> \o v
    ELSE <<Head(v)>> \o InsertPair(Tail(v), x)

RECURSIVE SortPairsFrom(_, _, _)
SortPairsFrom(v, k, sorted) ==
    IF k > Len(v) THEN sorted
    ELSE SortPairsFrom(v, k + 1, InsertPair(sorted, v[k]))

\* a faulty variant of sort_unstable: the vector stays as it was collected
SortSkipped(v) == v

\* Vec<(_, _)>::sort_unstable
sort_unstable(v) == SortPairsFrom(v, 1, <<>>)

\* values.iter().take_while(|(v, _)| *v == min)
take_while(values, min) ==
    SubSeq(values, 1,
           Cardinality({k \in 1 .. Len(values) :
                           \A j \in 1 .. k : values[j][1] = min}))

\* the loop `for &(_, pos) in tied` of get_empty_position from its k-th pass
RECURSIVE TiedLoop(_, _, _, _, _)
TiedLoop(b, tied, k, min_restrictions, min_index) ==
    IF k > Len(tied) THEN min_index
    ELSE IF pos_restrictions(b, tied[k][2]) < min_restrictions
    THEN TiedLoop(b, tied, k + 1,
                  pos_restrictions(b, tied[k][2]), tied[k][2])
    ELSE TiedLoop(b, tied, k + 1, min_restrictions, min_index)

\* SudokuBoard::get_empty_position when the set yields its elements in the
\* arrangement `order`
get_empty_position_in(order, b, d, min_tie_to_solve) ==
    LET it == Arrange(order, d.empty_positions)
        values == sort_unstable([k \in 1 .. Len(it) |->
                                    <<DomainCount(d, it[k]), it[k]>>])
    IN  IF values = <<>> THEN None
        ELSE LET min == values[1][1]
                 tied == take_while(values, min)
             IN  IF Len(tied) > min_tie_to_solve
                 THEN TiedLoop(b, tied, 1, UsizeMax, values[1][2])
                 ELSE values[1][2]

\* the fold of get_possible over the domains of the empty positions, from
\* the k-th position yielded: acc[i] counts the domains whose bit i is false
RECURSIVE FoldFrom(_, _, _, _)
FoldFrom(d, it, k, acc) ==
    IF k > Len(it) THEN acc
    ELSE FoldFrom(d, it, k + 1,
                  [i \in Bits |->
                      acc[i] + (IF d.domains[it[k]][i] THEN 0 ELSE 1)])

\* SudokuBoard::get_possible when the set yields its elements in the
\* arrangement `order`
get_possible_in(order, b, pos, d, min_possible_ordered) ==
    LET possible == SortedSeq({v + 1 : v \in {i \in Bits : d.domains[pos][i]}})
        acc == FoldFrom(d, Arrange(order, d.empty_positions), 1,
                        [i \in Bits |-> 0])
        values == sort_unstable([k \in 1 .. Len(possible) |->
                                    <<acc[possible[k] - 1], possible[k]>>])
    IN  IF Len(possible) > min_possible_ordered
        THEN [k \in 1 .. Len(values) |-> values[k][2]]
        ELSE possible

\* Entry of backtracking / backtracking_count / backtracking_all when the
\* set yields its elements in the arrangement `order`
EnterStepIn(s, order) ==
    LET pos == get_empty_position_in(order, s.work, s.domains, SIZE \div 2)
    IN  IF pos = None
        THEN [s EXCEPT
                !.solutions = IF s.mode = "all" THEN PushSolution(@, s.work)
                              ELSE @,
                !.retval = LeafValue(s.mode, ArgCount(s)),
                !.pc = AfterReturn(s.stack)]
        ELSE [s EXCEPT
                !.stack = Append(@,
                            [pos |-> pos,
                             possible |-> get_possible_in(order, s.work, pos,
                                                          s.domains, N),
                             temp_domains |-> NoDomains,
                             count |-> ArgCount(s)]),
                !.pc = "loop"]

\* a call of the search is entered; the set of empty positions yields its
\* elements in any of the arrangements
EnterIn ==
    /\ CanEnter(search)
    /\ \E order \in 1 .. NumOrders : search' = EnterStepIn(search, order)
    /\ board' = Written(search')
    /\ UNCHANGED <<gen_vars, aux_vars>>

\* Specification of the solver with the iteration order left open
NextOrder ==
    \/ CallSolve \/ CallCountSolutions \/ CallSolveAll
    \/ EnterIn \/ Try \/ Resume \/ Exhaust

SpecOrder == Init /\ [][NextOrder]_vars

\* ------------------------------------------------------------------------
\* SudokuBoard::generate (board.rs)
\* ------------------------------------------------------------------------
\* SudokuBoard::default()
DefaultBoard == [p \in Positions |-> 0]

\* board with the group at (row, col) filled from numbers, cell by cell
FillGroup(b, row, col, numbers) ==
    LET g == group_positions(row, col)
    IN  [p \in Positions |->
            IF \E k \in 1 .. N2 : g[k] = p
            THEN numbers[CHOOSE k \in 1 .. N2 : g[k] = p]
            ELSE b[p]]

\* the loop `for i in 0..N` that fills the groups of the main diagonal, from
\* group i on: the board and the generator after it
RECURSIVE FillDiagonal(_, _, _)
FillDiagonal(b, r, i) ==
    IF i >= N THEN [board |-> b, rng |-> r]
    ELSE LET numbers == shuffle([k \in 1 .. N2 |-> k], r)
         IN  FillDiagonal(FillGroup(b, i * N, i * N, numbers.vec),
                          numbers.rng, i + 1)

\* generate up to its loop of substitutions: the diagonal groups are filled,
\* the domains calculated, the number of substitutions drawn and the empty
\* positions collected in the order the HashSet happens to yield them.
GenStart ==
    /\ gpc = "start"
    /\ \E order \in 1 .. NumOrders :
         LET filled == FillDiagonal(DefaultBoard, make_rng(cfg.seed), 0)
             d == calculate_domains(filled.board)
             n == gen_range(filled.rng, 10, 20)
         IN  /\ board' = filled.board
             /\ gen' = [rng |-> n.rng, domains |-> d,
                        sustitutions |-> n.value,
                        empty_positions |-> Arrange(order, d.empty_positions),
                        pos |-> 0, possible |-> <<>>]
    /\ gpc' = "pick"
    /\ UNCHANGED <<search, cfg, dig, first, aux_vars>>

\* Head of one substitution: a random empty position is removed from the
\* list and its possible values are shuffled.
GenPick ==
    /\ gpc = "pick"
    /\ gen.sustitutions > 0
    /\ LET i == gen_range(gen.rng, 0, Len(gen.empty_positions))
           pos == gen.empty_positions[i.value + 1]
           possible == shuffle(get_possible(board, pos, gen.domains, UsizeMax),
                               i.rng)
       IN  gen' = [gen EXCEPT
                     !.rng = possible.rng,
                     !.empty_positions = RemoveAt(gen.empty_positions, i.value),
                     !.pos = pos,
                     !.possible = possible.vec]
    /\ gpc' = "try"
    /\ UNCHANGED <<board, search, cfg, dig, first, aux_vars>>

\* One turn of the inner loop: the last possible value is popped (a panic
\* when there is none) and written; when count_solutions(1) is 1 on the
\* board the domains are updated and the substitution is over, otherwise the
\* loop goes on.
GenTry ==
    /\ gpc = "try"
    /\ IF gen.possible = <<>>
       THEN /\ gpc' = "panicked"
            /\ UNCHANGED <<board, gen>>
       ELSE LET value == gen.possible[Len(gen.possible)]
                b == [board EXCEPT ![gen.pos] = value]
                rest == SubSeq(gen.possible, 1, Len(gen.possible) - 1)
            IN  /\ board' = b
                /\ IF count_solutions(b, 1) = 1
                   THEN /\ gen' = [gen EXCEPT
                                     !.possible = rest,
                                     !.domains = update_domains(@, gen.pos, value),
                                     !.sustitutions = @ - 1]
                        /\ gpc' = "pick"
                   ELSE /\ gen' = [gen EXCEPT !.possible = rest]
                        /\ gpc' = "try"
    /\ UNCHANGED <<search, cfg, dig, first, aux_vars>>

\* The substitutions are done: solve() is called (its result is dropped) and
\* generate returns the board.
GenSolve ==
    /\ gpc = "pick"
    /\ gen.sustitutions = 0
    /\ board' = solve(board).board
    /\ gpc' = "generated"
    /\ UNCHANGED <<search, gen, cfg, dig, first, aux_vars>>

\* A second generation from the same seed: generate_from_seed is called
\* again (or Generator::generate, which seeds its generator in the same way
\* and hands it to SudokuBoard::generate).
GenAgain ==
    /\ gpc = "generated"
    /\ first = <<>>
    /\ first' = board
    /\ board' = DefaultBoard
    /\ gen' = NoGen
    /\ gpc' = "start"
    /\ UNCHANGED <<search, cfg, dig, aux_vars>>

\* ------------------------------------------------------------------------
\* Specification of the board generator: generate_from_seed is called twice
\* with one seed
\* ------------------------------------------------------------------------
MaxSeed == 3

Seeds == 1 .. MaxSeed

InitGen ==
    /\ board = DefaultBoard
    /\ search = NoSearch(DefaultBoard)
    /\ gpc = "start"
    /\ gen = NoGen
    /\ \E seed \in Seeds : cfg = [NoCfg EXCEPT !.seed = seed]
    /\ dig = NoDig
    /\ first = <<>>
    /\ conv = NoConv
    /\ iter = NoIter

NextGen == GenStart \/ GenPick \/ GenTry \/ GenSolve \/ GenAgain

SpecGen == InitGen /\ [][NextGen]_vars

\* ------------------------------------------------------------------------
\* Generator::generate (puzzle.rs)
\* ------------------------------------------------------------------------
Difficulties == {"Easy", "Normal", "Hard", "Insane"}

\* `let empty_positions = match &difficulty { .. }`
EmptyTarget(difficulty) ==
    CASE difficulty = "Easy" -> 25
      [] difficulty = "Normal" -> 35
      [] difficulty = "Hard" -> 50
      [] difficulty = "Insane" -> 64

\* a faulty variant of EnoughRemoved: the loop breaks one hole late
MoreThanEnoughRemoved(removed, target) == removed > target

\* `if removed >= empty_positions { break; }`
EnoughRemoved(removed, target) == removed >= target

\* a faulty variant of RestoreCell: the cell stays cleared
LeaveCleared(b, pos, val) == b

\* a faulty variant of RestoreCell: the digit put back is the one after the
\* digit removed
RestoreNextDigit(b, pos, val) == [b EXCEPT ![pos] = (val % N2) + 1]

\* puzzle[pos] = val
RestoreCell(b, pos, val) == [b EXCEPT ![pos] = val]

\* SudokuBoard::generate has returned the solution: the puzzle starts as its
\* clone and the positions 0..SIZE are shuffled with the same generator.
PuzzleStart ==
    /\ gpc = "generated"
    /\ dig' = [solution |-> board,
               positions |-> shuffle([k \in 1 .. SIZE |-> k - 1], gen.rng).vec,
               removed |-> 0]
    /\ gpc' = "dig"
    /\ UNCHANGED <<board, search, gen, cfg, first, aux_vars>>

\* One turn of `for pos in positions`: the cell is cleared; the hole stays
\* when uniqueness is not asked for or count_solutions(2) is still 1, and the
\* loop breaks once enough cells are removed; otherwise the value is put
\* back.  After the last position the loop is over as well.
DigStep ==
    /\ gpc = "dig"
    /\ dig.positions # <<>>
    /\ LET pos == Head(dig.positions)
           val == board[pos]
           cleared == [board EXCEPT ![pos] = 0]
           rest == Tail(dig.positions)
       IN  IF ~cfg.unique \/ count_solutions(cleared, 2) = 1
           THEN /\ board' = cleared
                /\ dig' = [dig EXCEPT !.positions = rest,
                                      !.removed = @ + 1]
                /\ gpc' = IF EnoughRemoved(dig.removed + 1,
                                           EmptyTarget(cfg.difficulty))
                             \/ rest = <<>>
                          THEN "dug" ELSE "dig"
           ELSE /\ board' = RestoreCell(cleared, pos, val)
                /\ dig' = [dig EXCEPT !.positions = rest]
                /\ gpc' = IF rest = <<>> THEN "dug" ELSE "dig"
    /\ UNCHANGED <<search, gen, cfg, first, aux_vars>>

\* ------------------------------------------------------------------------
\* Specification of the puzzle generator: Generator::generate with a seed, a
\* difficulty and the unique flag
\* ------------------------------------------------------------------------
InitPuzzle ==
    /\ board = DefaultBoard
    /\ search = NoSearch(DefaultBoard)
    /\ gpc = "start"
    /\ gen = NoGen
    /\ \E seed \in Seeds, unique \in BOOLEAN, difficulty \in Difficulties :
         cfg = [seed |-> seed, unique |-> unique, difficulty |-> difficulty]
    /\ dig = NoDig
    /\ first = <<>>
    /\ conv = NoConv
    /\ iter = NoIter

NextPuzzle ==
    GenStart \/ GenPick \/ GenTry \/ GenSolve \/ PuzzleStart \/ DigStep

SpecPuzzle == InitPuzzle /\ [][NextPuzzle]_vars

\* ------------------------------------------------------------------------
\* Conversions (board.rs): to_line_string and the TryFrom implementations.
\* A string is a sequence of characters, a character a one-letter string;
\* WideChar stands for a character that takes two bytes in UTF-8.
\* ------------------------------------------------------------------------
DigitChars == <<"0", "1", "2", "3", "4", "5", "6", "7", "8", "9">>

WideChar == "U+00E9"

\* char::len_utf8
len_utf8(c) == IF c = WideChar THEN 2 ELSE 1

\* str::len: the length in bytes
RECURSIVE str_len(_)
str_len(s) == IF s = <<>> THEN 0 ELSE len_utf8(Head(s)) + str_len(Tail(s))

\* a faulty variant of to_digit: a character that is no digit counts as 0
ToDigitOrZero(c) ==
    IF \E d \in 0 .. 9 : DigitChars[d + 1] = c
    THEN CHOOSE d \in 0 .. 9 : DigitChars[d + 1] = c
    ELSE 0

\* char::to_digit(10): the digit, or None
to_digit(c) ==
    IF \E d \in 0 .. 9 : DigitChars[d + 1] = c
    THEN CHOOSE d \in 0 .. 9 : DigitChars[d + 1] = c
    ELSE None

\* u8::to_string: the decimal digits of x
RECURSIVE to_string(_)
to_string(x) ==
    IF x < 10 THEN <<DigitChars[x + 1]>>
    ELSE to_string(x \div 10) \o <<DigitChars[(x % 10) + 1]>>

\* a faulty variant of CellString: an empty cell is written as its number
CellStringPlain(x) == to_string(x)

\* the closure of to_line_string: `0 => ".", x => x.to_string()`
CellString(x) == IF x = 0 THEN <<".">> ELSE to_string(x)

\* the strings of the cells pos, pos + 1, ... collected
RECURSIVE CollectFrom(_, _)
CollectFrom(b, pos) ==
    IF pos >= SIZE THEN <<>>
    ELSE CellString(b[pos]) \o CollectFrom(b, pos + 1)

\* SudokuBoard::to_line_string
to_line_string(b) == CollectFrom(b, 0)

\* Result<SudokuBoard, &'static str>
Ok(b) == [ok |-> TRUE, board |-> b, err |-> ""]
Err(e) == [ok |-> FALSE, board |-> <<>>, err |-> e]

\* a faulty variant of ValueInRange: N2 itself is refused
ValueBelowN2(d) == d < N2

\* `d <= N2 as u8`
ValueInRange(d) == d <= N2

\* TryFrom<[u8; SIZE]>: arr has SIZE elements
try_from_arr(arr) ==
    IF \A k \in 1 .. SIZE : ValueInRange(arr[k])
    THEN Ok([p \in Positions |-> arr[p + 1]])
    ELSE Err("Values must be between 0 and sqrt(SIZE)")

\* TryFrom<&[u8]>
try_from_slice(slice) ==
    IF Len(slice) # SIZE THEN Err("Could not convert slice to array")
    ELSE try_from_arr(slice)

\* TryFrom<Vec<u8>>
try_from_vec(vec) == try_from_slice(vec)

\* a faulty variant of ParseChar: the dot is not read as an empty cell
ParseCharNoDot(c) == to_digit(c)

\* the closure of TryFrom<&str>: `'.' => Ok(0), c => c.to_digit(10)..`
ParseChar(c) == IF c = "." THEN 0 ELSE to_digit(c)

\* TryFrom<&str>
try_from_str(s) ==
    IF str_len(s) # SIZE THEN Err("Invalid str len, must be SIZE")
    ELSE LET v == [k \in 1 .. Len(s) |-> ParseChar(s[k])]
         IN  IF \E k \in 1 .. Len(s) : v[k] = None
             THEN Err("Invalid character")
             ELSE try_from_vec(v)

\* the caller's board after a conversion that returned r
Received(r) == IF r.ok THEN r.board ELSE board

\* to_line_string is called on the board
ToLineString ==
    /\ conv.op = "none"
    /\ conv' = [op |-> "to_line_string", from |-> board,
                str |-> to_line_string(board)]
    /\ UNCHANGED <<board, search, gen_vars, iter>>

\* the string to_line_string returned is parsed
ParseBack ==
    /\ conv.op = "to_line_string"
    /\ LET r == try_from_str(conv.str)
       IN  /\ conv' = [op |-> "round_trip", from |-> conv.from,
                       str |-> conv.str, res |-> r]
           /\ board' = Received(r)
    /\ UNCHANGED <<search, gen_vars, iter>>

\* ------------------------------------------------------------------------
\* Inputs of the conversions
\* ------------------------------------------------------------------------
\* strings and sequences are up to MaxExtra elements shorter or longer
\* than SIZE
MaxExtra == 1

\* the puzzle of tests::line_string, 0 for a dot
PuzzleLine ==
    << 0,0,2,0,0,0,0,3,0,
       0,0,0,0,8,6,0,5,0,
       0,3,6,5,0,0,0,9,1,
       0,0,0,0,0,0,0,0,6,
       0,6,9,1,0,0,0,7,0,
       0,0,8,0,0,0,0,0,0,
       0,0,0,0,0,0,9,0,0,
       0,0,0,0,0,8,0,1,7,
       0,7,1,6,0,0,5,0,3 >>

\* indexes at which an input is edited
EditIndexes == {1, 41, SIZE}

\* characters written at those indexes
EditChars == {".", "0", "9", "a", " ", WideChar}

\* values written at those indexes
EditValues == {0, 9, 10, 255}

\* v cut or padded with x to n elements
Resize(v, n, x) == [k \in 1 .. n |-> IF k <= Len(v) THEN v[k] ELSE x]

Lengths == {0} \cup ((SIZE - MaxExtra) .. (SIZE + MaxExtra))

\* the test puzzle in dots, in zeroes, and the solved board
BaseStrings ==
    {to_line_string(FromLine(PuzzleLine)),
     [k \in 1 .. SIZE |-> DigitChars[PuzzleLine[k] + 1]],
     to_line_string(Solved)}

InputStrings ==
    {[s EXCEPT ![k] = c] : s \in BaseStrings, k \in EditIndexes, c \in EditChars}
    \cup {Resize(s, n, "1") : s \in BaseStrings, n \in Lengths}
    \cup {[Resize(s, n, "1") EXCEPT ![1] = WideChar] :
            s \in BaseStrings, n \in Lengths \ {0}}

InputSeqs ==
    {[v EXCEPT ![k] = x] :
        v \in {PuzzleLine, SolvedLine}, k \in EditIndexes, x \in EditValues}
    \cup {Resize(v, n, 1) : v \in {PuzzleLine, SolvedLine}, n \in Lengths}

\* boards to_line_string is called on; the last ones hold a 10, written
\* through IndexMut
TextBoards ==
    {Solved, FromLine(PuzzleLine), DefaultBoard,
     WithoutDigits(Solved, SparseDigits)}
    \cup {[Solved EXCEPT ![k - 1] = 10] : k \in EditIndexes}

\* SudokuBoard::try_from(&str) is called
TryFromStr ==
    /\ conv.op = "none"
    /\ \E s \in InputStrings :
         LET r == try_from_str(s)
         IN  /\ conv' = [op |-> "try_from_str", str |-> s, res |-> r]
             /\ board' = Received(r)
    /\ UNCHANGED <<search, gen_vars, iter>>

\* to_line_string is called on the board that was parsed
FormatParsed ==
    /\ conv.op = "try_from_str"
    /\ conv.res.ok
    /\ conv' = [op |-> "reformatted", str |-> conv.str, res |-> conv.res,
                out |-> to_line_string(board)]
    /\ UNCHANGED <<board, search, gen_vars, iter>>

\* SudokuBoard::try_from(Vec<u8>) / try_from(&[u8]) is called
TryFromSeq ==
    /\ conv.op = "none"
    /\ \E v \in InputSeqs :
         LET r == try_from_vec(v)
         IN  /\ conv' = [op |-> "try_from_seq", seq |-> v, res |-> r]
             /\ board' = Received(r)
    /\ UNCHANGED <<search, gen_vars, iter>>

\* ------------------------------------------------------------------------
\* Specification of the conversions
\* ------------------------------------------------------------------------
InitText ==
    /\ board \in TextBoards
    /\ search = NoSearch(DefaultBoard)
    /\ gpc = "off"
    /\ gen = NoGen
    /\ cfg = NoCfg
    /\ dig = NoDig
    /\ first = <<>>
    /\ conv = NoConv
    /\ iter = NoIter

NextText ==
    ToLineString \/ ParseBack \/ TryFromStr \/ FormatParsed \/ TryFromSeq

SpecText == InitText /\ [][NextText]_vars

\* ------------------------------------------------------------------------
\* Specification of the iterator: adjacent_positions(pos) is called and
\* next is called on the iterator, over and over
\* ------------------------------------------------------------------------
\* most calls of next on one iterator
MaxNext == 23

\* adjacent_positions(pos) is called
AdjacentPositions ==
    /\ iter.op = "none"
    /\ \E pos \in Positions :
         iter' = [op |-> "iterating", pos |-> pos,
                  it |-> AdjacentPositionsIterator(to_row_col(pos)[1],
                                                   to_row_col(pos)[2]),
                  out |-> <<>>]
    /\ UNCHANGED <<board, search, gen_vars, conv>>

\* next is called: what it returns (<<p>> for Some(p), <<>> for None) is
\* appended to out
IteratorNext ==
    /\ iter.op = "iterating"
    /\ Len(iter.out) < MaxNext
    /\ LET r == IterNext(iter.it)
       IN  iter' = [iter EXCEPT !.it = r.it, !.out = Append(@, r.item)]
    /\ UNCHANGED <<board, search, gen_vars, conv>>

InitIter ==
    /\ board = DefaultBoard
    /\ search = NoSearch(DefaultBoard)
    /\ gpc = "off"
    /\ gen = NoGen
    /\ cfg = NoCfg
    /\ dig = NoDig
    /\ first = <<>>
    /\ conv = NoConv
    /\ iter = NoIter

NextIter == AdjacentPositions \/ IteratorNext

SpecIter == InitIter /\ [][NextIter]_vars

\* ------------------------------------------------------------------------
\* Vocabulary of the claims, stated without the program's own geometry
\* ------------------------------------------------------------------------
RowOf(p) == p \div 9
ColOf(p) == p % 9
BlockOf(p) == 3 * (RowOf(p) \div 3) + (ColOf(p) \div 3)

\* p and q are distinct cells of one row, one column or one 3x3 block
Peer(p, q) ==
    /\ p # q
    /\ \/ RowOf(p) = RowOf(q)
       \/ ColOf(p) = ColOf(q)
       \/ BlockOf(p) = BlockOf(q)

PeerTable == [p \in Positions |-> {q \in Positions : Peer(p, q)}]

PeersOf(p) == PeerTable[p]

EmptyCells(b) == {p \in Positions : b[p] = 0}

Full(b) == EmptyCells(b) = {}

\* no two peer cells hold the same non-zero digit
NoConflict(b) ==
    \A p \in Positions : b[p] # 0 => \A q \in PeersOf(p) : b[q] # b[p]

\* two cells of one row hold the same non-zero digit
RowConflict(b) ==
    \E p, q \in Positions :
        p # q /\ RowOf(p) = RowOf(q) /\ b[p] # 0 /\ b[p] = b[q]

\* c keeps every filled cell of b
Keeps(b, c) == \A p \in Positions : b[p] # 0 => c[p] = b[p]

\* d may be written into the empty cell p of b
Fits(b, p, d) == \A q \in PeersOf(p) : b[q] # d

\* The number of full legal completions of b, counted up to cap: the first
\* empty cell takes each digit that fits in turn, and the count stops at cap.
RECURSIVE CompletionsUpTo(_, _)
CompletionsUpTo(b, cap) ==
    IF cap <= 0 THEN 0
    ELSE IF Full(b) THEN (IF NoConflict(b) THEN 1 ELSE 0)
    ELSE LET p == Min(EmptyCells(b))
             with(d, left) ==
                 IF left > 0 /\ Fits(b, p, d)
                 THEN CompletionsUpTo([b EXCEPT ![p] = d], left)
                 ELSE 0
             c1 == with(1, cap)
             c2 == c1 + with(2, cap - c1)
             c3 == c2 + with(3, cap - c2)
             c4 == c3 + with(4, cap - c3)
             c5 == c4 + with(5, cap - c4)
             c6 == c5 + with(6, cap - c5)
             c7 == c6 + with(7, cap - c6)
             c8 == c7 + with(8, cap - c7)
         IN  c8 + with(9, cap - c8)

\* the search m has returned to its caller
Done(m) == search.pc = "done" /\ search.mode = m

\* the number of empty cells of b
Holes(b) == Cardinality(EmptyCells(b))

\* ------------------------------------------------------------------------
\* Claims about the solver (specification Spec)
\* ------------------------------------------------------------------------
\* C1: on a board whose filled cells do not conflict, when solve() has
\* returned true the board has no empty cell, no cell's value occurs among
\* its peers, and every cell that was filled before the call holds its
\* original value.
C1_SolveTrueGivesLegalCompletion ==
    Done("solve") /\ NoConflict(search.orig) /\ search.retval = TRUE
        => /\ Full(board)
           /\ NoConflict(board)
           /\ Keeps(search.orig, board)

\* solve() has returned true on a conflict-free board with more than 20
\* empty cells
C1_Witness ==
    /\ Done("solve")
    /\ NoConflict(search.orig)
    /\ search.retval = TRUE
    /\ Holes(search.orig) > 20

\* C2: on a board whose filled cells do not conflict, solve() returns true
\* if and only if the board has at least one full legal completion; with no
\* completion it returns false.
C2_SolveTrueIffCompletable ==
    Done("solve") /\ NoConflict(search.orig)
        => (search.retval = TRUE <=> CompletionsUpTo(search.orig, 1) >= 1)

\* solve() has returned false on a conflict-free board with more than 20
\* empty cells, which has no completion
C2_Witness ==
    /\ Done("solve")
    /\ NoConflict(search.orig)
    /\ search.retval = FALSE
    /\ Holes(search.orig) > 20
    /\ CompletionsUpTo(search.orig, 1) = 0

\* C3: on a board whose filled cells do not conflict and for max >= 1,
\* count_solutions(max) is the smaller of max and the number of full legal
\* completions of the board.
C3_CountIsCappedNumberOfCompletions ==
    Done("count") /\ NoConflict(search.orig) /\ search.max_solutions >= 1
        => search.retval = CompletionsUpTo(search.orig, search.max_solutions)

\* count_solutions(2) has returned 2 on a conflict-free board with more
\* than 20 empty cells
C3_Witness ==
    /\ Done("count")
    /\ NoConflict(search.orig)
    /\ search.max_solutions = 2
    /\ search.retval = 2
    /\ Holes(search.orig) > 20

\* C4: on a board whose filled cells do not conflict and for max >= 1,
\* solve_all(max) returns pairwise distinct boards, each full, each legal,
\* each keeping the filled cells of the input, and as many of them as the
\* smaller of max and the number of completions of the input.
C4_SolveAllGivesDistinctCompletions ==
    Done("all") /\ NoConflict(search.orig) /\ search.max_solutions >= 1
        => LET sols == search.solutions
           IN  /\ \A i, j \in 1 .. Len(sols) : i # j => sols[i] # sols[j]
               /\ \A i \in 1 .. Len(sols) :
                     /\ Full(sols[i])
                     /\ NoConflict(sols[i])
                     /\ Keeps(search.orig, sols[i])
               /\ Len(sols) =
                     CompletionsUpTo(search.orig, search.max_solutions)

\* solve_all(2) has returned two boards for a conflict-free board with
\* empty cells
C4_Witness ==
    /\ Done("all")
    /\ NoConflict(search.orig)
    /\ search.max_solutions = 2
    /\ Len(search.solutions) = 2
    /\ Holes(search.orig) > 0

\* C5: for every board, a full one included, and every max >= 0, 0
\* included, count_solutions(max) is at most max and solve_all(max) returns
\* at most max boards.
C5_NeverMoreThanMax ==
    /\ Done("count") => search.retval <= search.max_solutions
    /\ Done("all") => Len(search.solutions) <= search.max_solutions

\* C6: on a board in which two cells of one row hold the same non-zero
\* digit, solve() returns false and count_solutions(max) returns 0.
C6_RowConflictIsRejected ==
    RowConflict(search.orig)
        => /\ Done("solve") => search.retval = FALSE
           /\ Done("count") => search.retval = 0

\* C7: after count_solutions(max) or solve_all(max) every cell of the
\* caller's board holds the value it held before the call.
C7_CallersBoardUntouched ==
    Done("count") \/ Done("all") => board = search.orig

\* count_solutions or solve_all has returned leaving values in cells of
\* its clone that the caller's board has empty
C7_Witness ==
    /\ Done("count") \/ Done("all")
    /\ search.work # search.orig
    /\ board = search.orig

\* ------------------------------------------------------------------------
\* Claims about the generators (specifications SpecGen and SpecPuzzle)
\* ------------------------------------------------------------------------
\* C8: two generations from one seed return identical boards, whatever the
\* order in which the set of empty positions is iterated.
C8_SameSeedSameBoard ==
    gpc = "generated" /\ first # <<>> => board = first

\* C9: the board returned by generate has no empty cell and no cell's value
\* occurs among its peers.
C9_GeneratedBoardIsFullAndLegal ==
    gpc = "generated" => Full(board) /\ NoConflict(board)

\* generate has returned after at least 10 substitutions
C9_Witness ==
    /\ gpc = "generated"
    /\ gen.sustitutions = 0
    /\ Len(gen.empty_positions) <= (SIZE - N * N2) - 10

\* C10: with unique set, count_solutions(2) is 1 on the working puzzle after
\* every step of the hole-digging loop and on the puzzle returned.
C10_PuzzleStaysUnique ==
    gpc \in {"dig", "dug"} /\ cfg.unique => count_solutions(board, 2) = 1

\* a puzzle with at least 35 holes has been returned with unique set, after
\* a hole was refused and its value put back
C10_Witness ==
    /\ gpc = "dug"
    /\ cfg.unique
    /\ dig.removed >= 35
    /\ Holes(board) = dig.removed
    /\ SIZE - Len(dig.positions) > dig.removed

\* the number of empty cells the claims name for each difficulty
ClaimedTarget(difficulty) ==
    CASE difficulty = "Easy" -> 25
      [] difficulty = "Normal" -> 35
      [] difficulty = "Hard" -> 50
      [] difficulty = "Insane" -> 64

\* C11: the number of empty cells of the puzzle equals the removed count
\* (stats.empty_positions) and never exceeds the difficulty's target; the
\* loop goes on only below the target and ends at the target or with the
\* positions exhausted; the positions still to visit are pairwise distinct
\* and none of them is a hole already dug; without unique the puzzle
\* returned has exactly the target number of empty cells.
C11_HolesMatchRemovedAndTarget ==
    gpc \in {"dig", "dug"}
        => /\ Holes(board) = dig.removed
           /\ dig.removed <= ClaimedTarget(cfg.difficulty)
           /\ gpc = "dig" => dig.removed < ClaimedTarget(cfg.difficulty)
           /\ gpc = "dug" => \/ dig.removed = ClaimedTarget(cfg.difficulty)
                             \/ dig.positions = <<>>
           /\ Cardinality(Range(dig.positions)) = Len(dig.positions)
           /\ \A p \in Range(dig.positions) : board[p] # 0
           /\ gpc = "dug" /\ ~cfg.unique
                 => Holes(board) = ClaimedTarget(cfg.difficulty)

\* a puzzle has been returned with unique set and fewer holes than the
\* target, every position visited
C11_Witness ==
    /\ gpc = "dug"
    /\ cfg.unique
    /\ dig.positions = <<>>
    /\ Holes(board) < ClaimedTarget(cfg.difficulty)

\* ------------------------------------------------------------------------
\* Claims about the conversions (specification SpecText)
\* ------------------------------------------------------------------------
\* the characters the claims name
DotAndNonZeroDigits == {".", "1", "2", "3", "4", "5", "6", "7", "8", "9"}
DotAndDigits == DotAndNonZeroDigits \cup {"0"}

\* a string has been handed to try_from(&str)
Parsed == conv.op \in {"try_from_str", "reformatted"}

\* C12: for every board with cell values in 0..9, parsing the string
\* to_line_string returns succeeds and gives a board equal to it.
C12_LineStringRoundTrip ==
    conv.op = "round_trip" /\ (\A p \in Positions : conv.from[p] \in 0 .. 9)
        => conv.res.ok /\ conv.res.board = conv.from

\* the round trip has been made on a board with empty and filled cells
C12_Witness ==
    /\ conv.op = "round_trip"
    /\ \E p, q \in Positions : conv.from[p] = 0 /\ conv.from[q] \in 1 .. 9
    /\ \A p \in Positions : conv.from[p] \in 0 .. 9
    /\ conv.res.board = conv.from

\* C13, as stated: a string whose length is not 81, or that holds a
\* character other than '.' and '1'..'9', is rejected with an error and
\* yields no board.
C13_RejectsAllButDotAndNonZeroDigits ==
    Parsed /\ \/ Len(conv.str) # SIZE
              \/ \E k \in 1 .. Len(conv.str) :
                    conv.str[k] \notin DotAndNonZeroDigits
        => ~conv.res.ok /\ conv.res.board = <<>> /\ conv.res.err # ""

\* C13, amended: a string whose length is not 81, or that holds a character
\* other than '.' and '0'..'9', is rejected with an error and yields no
\* board.
C13_RejectsAllButDotAndDigits ==
    Parsed /\ \/ Len(conv.str) # SIZE
              \/ \E k \in 1 .. Len(conv.str) : conv.str[k] \notin DotAndDigits
        => ~conv.res.ok /\ conv.res.board = <<>> /\ conv.res.err # ""

\* a string of 81 characters, one of them a letter, has been rejected
C13_Witness ==
    /\ Parsed
    /\ Len(conv.str) = SIZE
    /\ \E k \in 1 .. SIZE : conv.str[k] = "a"
    /\ ~conv.res.ok

\* C14: for an 81-character string over '.' and '0'..'9' parsing succeeds,
\* '0' and '.' are both read as an empty cell and every other digit as its
\* value, and to_line_string of the parsed board is the input with every
\* '0' replaced by '.'.
C14_ZeroReadsAsDot ==
    Parsed /\ Len(conv.str) = SIZE
           /\ (\A k \in 1 .. SIZE : conv.str[k] \in DotAndDigits)
        => /\ conv.res.ok
           /\ \A k \in 1 .. SIZE :
                 IF conv.str[k] \in {".", "0"}
                 THEN conv.res.board[k - 1] = 0
                 ELSE DigitChars[conv.res.board[k - 1] + 1] = conv.str[k]
           /\ conv.op = "reformatted"
                 => conv.out = [k \in 1 .. SIZE |->
                                  IF conv.str[k] = "0" THEN "."
                                  ELSE conv.str[k]]

\* a string holding '0', '.' and other digits has been parsed and written
\* back
C14_Witness ==
    /\ conv.op = "reformatted"
    /\ \E i, j, k \in 1 .. SIZE :
          conv.str[i] = "0" /\ conv.str[j] = "." /\ conv.str[k] = "9"
    /\ conv.out # conv.str

\* C15: constructing a board from a sequence of integers returns a board,
\* holding exactly the given values, if and only if the sequence has length
\* 81 and every value is in 0..9; every other sequence returns an error and
\* no board.
C15_SequenceAcceptedIffInRange ==
    conv.op = "try_from_seq"
        => /\ conv.res.ok <=>
                 /\ Len(conv.seq) = SIZE
                 /\ \A k \in 1 .. Len(conv.seq) : conv.seq[k] \in 0 .. 9
           /\ conv.res.ok
                 => \A p \in Positions : conv.res.board[p] = conv.seq[p + 1]
           /\ ~conv.res.ok => conv.res.board = <<>> /\ conv.res.err # ""

\* a sequence of 81 values holding a 9 has been accepted
C15_Witness ==
    /\ conv.op = "try_from_seq"
    /\ conv.res.ok
    /\ \E k \in 1 .. SIZE : conv.seq[k] = 9

\* ------------------------------------------------------------------------
\* Claims about the iterator (specification SpecIter)
\* ------------------------------------------------------------------------
\* the positions among the first n results of next
Yielded(n) ==
    {iter.out[k][1] : k \in {j \in 1 .. Min({n, Len(iter.out)}) :
                                iter.out[j] # <<>>}}

\* C16: adjacent_positions yields exactly 20 positions, pairwise distinct,
\* none the position itself, exactly the cells of its row, its column or
\* its block; after the 20th item it yields nothing more.
C16_TwentyDistinctPeers ==
    iter.op = "iterating"
        => /\ \A k \in 1 .. Len(iter.out) :
                 IF k <= 20 THEN iter.out[k] # <<>> ELSE iter.out[k] = <<>>
           /\ \A j, k \in 1 .. Len(iter.out) :
                 j # k /\ j <= 20 /\ k <= 20 => iter.out[j] # iter.out[k]
           /\ Yielded(20) \subseteq PeersOf(iter.pos)
           /\ Len(iter.out) >= 20 => Yielded(20) = PeersOf(iter.pos)

\* next has been called three times after the 20th item of a cell in the
\* middle of the board
C16_Witness ==
    /\ iter.op = "iterating"
    /\ iter.pos = 40
    /\ Len(iter.out) = 23
    /\ Cardinality(Yielded(23)) = 20

\* the peers of p in the order the claims name: the other cells of its row
\* by column, the other cells of its column by row, the cells of its block
\* in neither, row by row
OrderedPeers(p) ==
    LET inRow == {q \in Positions : q # p /\ RowOf(q) = RowOf(p)}
        inCol == {q \in Positions : q # p /\ ColOf(q) = ColOf(p)}
        inBlock == {q \in Positions : /\ BlockOf(q) = BlockOf(p)
                                      /\ RowOf(q) # RowOf(p)
                                      /\ ColOf(q) # ColOf(p)}
    IN  SortedSeq(inRow) \o SortedSeq(inCol) \o SortedSeq(inBlock)

\* C17: adjacent_positions yields the 8 other cells of the row by ascending
\* column, then the 8 other cells of the column by ascending row, then the 4
\* cells of the block in neither, in row-major order.
C17_RowThenColumnThenBlock ==
    iter.op = "iterating"
        => \A k \in 1 .. Min({20, Len(iter.out)}) :
              iter.out[k] = <<OrderedPeers(iter.pos)[k]>>

\* all 20 peers of the last cell of the board have been yielded
C17_Witness ==
    /\ iter.op = "iterating"
    /\ iter.pos = SIZE - 1
    /\ Len(iter.out) = 20
    /\ iter.out[20] = <<70>>

\* ------------------------------------------------------------------------
\* Claims about the states of the search (specification Spec)
\* ------------------------------------------------------------------------
\* a search has been called and has or has not returned
Searching == search.pc # "idle"

\* C18: starting from a board whose filled cells do not conflict, in every
\* state of solve, count_solutions or solve_all, also between a failed
\* trial and the next one, no two peer cells of the working board hold the
\* same non-zero digit and no originally filled cell is overwritten.
C18_WorkingBoardStaysLegal ==
    Searching /\ NoConflict(search.orig)
        => NoConflict(search.work) /\ Keeps(search.orig, search.work)

\* a trial has failed in a call three levels deep or deeper: the value it
\* wrote is still in the cell while the loop goes on
C18_Witness ==
    /\ search.pc = "loop"
    /\ NoConflict(search.orig)
    /\ Len(search.stack) >= 3
    /\ search.work[Top(search).pos] # 0

\* d tracks b exactly: its empty positions are the cells holding 0, and for
\* each of them bit v - 1 is set if and only if no peer holds v
Tracks(d, b) ==
    /\ d.empty_positions = EmptyCells(b)
    /\ \A p \in EmptyCells(b) :
          \A v \in 1 .. 9 : d.domains[p][v - 1] <=> Fits(b, p, v)

\* C19: right after calculate_domains and at entry to every recursive call
\* of the search, the tracked empty positions are exactly the cells holding
\* 0, and for each of them the bit of a digit is set if and only if no peer
\* holds that digit.
C19_DomainsTrackTheBoard ==
    search.pc = "call" => Tracks(search.domains, search.work)

\* a recursive call is entered three levels deep with more than 20 empty
\* cells left
C19_Witness ==
    /\ search.pc = "call"
    /\ Len(search.stack) >= 3
    /\ Holes(search.work) > 20
    /\ Tracks(search.domains, search.work)

\* a candidate of the innermost call fails in this step: the recursive call
\* has returned without success, or still_possible has rejected the value
\* just written
TrialFails ==
    \/ CanResume(search) /\ search'.pc = "loop"
    \/ CanTry(search) /\ search'.pc = "loop" /\ search'.work # search.work

\* the snapshot of the domains taken before the assignment that fails
Snapshot ==
    IF CanResume(search) THEN Top(search).temp_domains ELSE search.domains

\* C20: after a candidate fails, the domains equal the snapshot taken before
\* the assignment and the cell is empty again before the next candidate is
\* tried.
C20_FailedTrialIsUndone ==
    [][TrialFails
         => /\ search'.domains = Snapshot
            /\ search'.work[Top(search).pos] = 0]_vars

\* ------------------------------------------------------------------------
\* Claims about the heuristics of the search (specification Spec)
\* ------------------------------------------------------------------------
\* number of candidate bits set for the cell p in the domains d
SetBits(d, p) == Cardinality({v \in 0 .. 8 : d.domains[p][v]})

\* number of peers of p that are empty on b
EmptyPeers(b, p) == Cardinality({q \in PeersOf(p) : b[q] = 0})

\* the empty cells of b with the fewest candidate bits set
TiedCells(b, d) ==
    {p \in EmptyCells(b) :
        \A q \in EmptyCells(b) : SetBits(d, p) <= SetBits(d, q)}

\* the cell the selection rule names, None when no cell is empty
ClaimedCell(b, d) ==
    LET tied == TiedCells(b, d)
        fewest == {p \in tied :
                      \A q \in tied : EmptyPeers(b, p) <= EmptyPeers(b, q)}
    IN  IF EmptyCells(b) = {} THEN None
        ELSE IF Cardinality(tied) <= 40 THEN Min(tied)
        ELSE Min(fewest)

\* C21: get_empty_position returns nothing if and only if no empty cell
\* remains; otherwise it returns an empty cell with the fewest set domain
\* bits: the lowest-indexed one when at most 40 cells are tied, and when
\* more than 40 are tied the lowest-indexed of the tied cells with the
\* fewest empty peers.  Each call of the search enters with that cell.
C21_SelectsClaimedCell ==
    [][CanEnter(search)
         => LET c == ClaimedCell(search.work, search.domains)
            IN  IF c = None
                THEN search'.stack = search.stack /\ search'.pc # "loop"
                ELSE /\ search'.pc = "loop"
                     /\ Top(search').pos = c]_vars

\* a call has just chosen its cell out of more than 40 tied ones, and the
\* empty peers decided: the chosen cell is not the lowest-indexed tied cell
C21_Witness ==
    /\ search.pc = "loop"
    /\ search.work[Top(search).pos] = 0
    /\ Cardinality(TiedCells(search.work, search.domains)) > 40
    /\ Top(search).pos = ClaimedCell(search.work, search.domains)
    /\ Top(search).pos # Min(TiedCells(search.work, search.domains))

\* a call has just chosen its cell out of 2 to 40 tied ones, although a
\* tied cell with a higher index has fewer empty peers
C21_SmallTie ==
    /\ search.pc = "loop"
    /\ search.work[Top(search).pos] = 0
    /\ Cardinality(TiedCells(search.work, search.domains)) \in 2 .. 40
    /\ Top(search).pos = Min(TiedCells(search.work, search.domains))
    /\ \E q \in TiedCells(search.work, search.domains) :
          EmptyPeers(search.work, q)
              < EmptyPeers(search.work, Top(search).pos)

\* the digits whose bit is set in the domain of p
Candidates(d, p) == {v \in 1 .. 9 : d.domains[p][v - 1]}

\* number of other empty cells that would lose v from their domain if v
\* were placed in p: the empty peers of p that can still take v
WouldLose(b, d, p, v) ==
    Cardinality({q \in PeersOf(p) : b[q] = 0 /\ d.domains[q][v - 1]})

\* number of empty cells whose domain bit for v is already clear
AlreadyLacking(b, d, v) ==
    Cardinality({q \in EmptyCells(b) : ~d.domains[q][v - 1]})

\* seq lists each digit of S exactly once
ListsOnce(seq, S) ==
    /\ Len(seq) = Cardinality(S)
    /\ Range(seq) = S

\* seq is in ascending digit order
AscendingDigits(seq) ==
    \A i, j \in 1 .. Len(seq) : i < j => seq[i] < seq[j]

\* the call entered in this step has chosen a cell and starts its loop
ChoosesCell == CanEnter(search) /\ search'.pc = "loop"

\* C22 as stated: for the chosen cell the search tries exactly the digits
\* whose domain bit is set, each once; 3 or fewer candidates in ascending
\* order, more than 3 in ascending order of the number of other empty cells
\* that would lose the digit if it were placed in the chosen cell, ties in
\* ascending digit order.
C22_RankedByCellsThatWouldLose ==
    [][ChoosesCell
         => LET f == Top(search')
                b == search.work
                d == search.domains
                lose(v) == WouldLose(b, d, f.pos, v)
            IN  /\ ListsOnce(f.possible, Candidates(d, f.pos))
                /\ IF Len(f.possible) <= 3
                   THEN AscendingDigits(f.possible)
                   ELSE \A i, j \in 1 .. Len(f.possible) :
                           i < j
                             => LET v == f.possible[i]
                                    w == f.possible[j]
                                IN  \/ lose(v) < lose(w)
                                    \/ lose(v) = lose(w) /\ v < w]_vars

\* C22 amended: for the chosen cell the search tries exactly the digits
\* whose domain bit is set, each once; 3 or fewer candidates in ascending
\* order, more than 3 in ascending order of the number of empty cells whose
\* domain bit for the digit is already clear, ties in ascending digit
\* order.
C22_RankedByCellsLackingDigit ==
    [][ChoosesCell
         => LET f == Top(search')
                b == search.work
                d == search.domains
                lack(v) == AlreadyLacking(b, d, v)
            IN  /\ ListsOnce(f.possible, Candidates(d, f.pos))
                /\ IF Len(f.possible) <= 3
                   THEN AscendingDigits(f.possible)
                   ELSE \A i, j \in 1 .. Len(f.possible) :
                           i < j
                             => LET v == f.possible[i]
                                    w == f.possible[j]
                                IN  \/ lack(v) < lack(w)
                                    \/ lack(v) = lack(w) /\ v < w]_vars

\* a call has just chosen a cell with more than 3 candidates and its list
\* is not in ascending digit order: the ranking has decided
C22_Witness ==
    /\ search.pc = "loop"
    /\ search.work[Top(search).pos] = 0
    /\ Len(Top(search).possible) > 3
    /\ ListsOnce(Top(search).possible,
                 Candidates(search.domains, Top(search).pos))
    /\ ~AscendingDigits(Top(search).possible)

\* a call has just chosen a cell with 2 or 3 candidates, listed ascending
C22_FewCandidates ==
    /\ search.pc = "loop"
    /\ search.work[Top(search).pos] = 0
    /\ Len(Top(search).possible) \in 2 .. 3
    /\ ListsOnce(Top(search).possible,
                 Candidates(search.domains, Top(search).pos))

\* ------------------------------------------------------------------------
\* Claims about the run of the search as a whole (specification Spec)
\* ------------------------------------------------------------------------
\* the innermost call writes a candidate into its cell in this step
Assigns ==
    /\ CanTry(search)
    /\ search'.work[Top(search).pos] # search.work[Top(search).pos]

\* the cells of the active calls, outermost first
BranchCells(s) == [k \in 1 .. Len(s.stack) |-> s.stack[k].pos]

\* How far the call at depth k of the search s is from its end; depth 0 is
\* the caller of the outermost call.  A call that does not exist yet counts
\* more than any that does; one that exists counts 3 for every candidate it
\* has left, plus 2 while a call it has made is running, plus 1 when that
\* call has just returned.
NotCalled == 3 * 9 + 3

Remaining(s, k) ==
    IF k = 0
    THEN IF s.pc = "done" THEN 0 ELSE 2
    ELSE IF k > Len(s.stack) THEN NotCalled
    ELSE 3 * Len(s.stack[k].possible)
           + (IF k < Len(s.stack) \/ s.pc = "call" THEN 2
              ELSE IF s.pc = "ret" THEN 1
              ELSE 0)

\* t is nearer its end than s: at the first depth where they differ, the
\* call of t has less left
Nearer(t, s) ==
    \E k \in 0 .. SIZE :
        /\ Remaining(t, k) < Remaining(s, k)
        /\ \A j \in 0 .. (k - 1) : Remaining(t, j) = Remaining(s, j)

\* the search has been called and has not returned
Running == search.pc \in {"call", "loop", "ret"}

\* a running search has a next step
HasStep ==
    CanEnter(search) \/ CanTry(search) \/ CanResume(search)
        \/ CanExhaust(search)

\* the active calls of s work on pairwise different cells
DifferentCells(s) ==
    \A i, j \in 1 .. Len(s.stack) :
        i # j => BranchCells(s)[i] # BranchCells(s)[j]

\* the value assigned in this step is not among the candidates its call has
\* left
NotLeft ==
    search'.work[Top(search).pos] \notin Range(Top(search').possible)

\* C23: every call of solve, count_solutions and solve_all terminates: a
\* running search always has a next step, and every step brings it nearer
\* its end in an order that has no infinite descent, so it ends (solved,
\* exhausted or at max) after finitely many steps.  Along one branch no
\* value is assigned to the same cell twice: the active calls work on
\* pairwise different cells, and a value a call has assigned is not among
\* the candidates it has left.
C23_SearchTerminates ==
    [][/\ Running => HasStep /\ Nearer(search', search)
       /\ Running => DifferentCells(search')
       /\ Assigns => NotLeft]_vars

\* solve has ended exhausted on a board with more than 20 empty cells and
\* no conflict among its filled cells
C23_Witness ==
    /\ Done("solve")
    /\ search.retval = FALSE
    /\ search.stack = <<>>
    /\ NoConflict(search.orig)
    /\ Holes(search.orig) > 20

\* ------------------------------------------------------------------------
\* Claims about the iteration order (specification SpecOrder)
\* ------------------------------------------------------------------------
\* the search on the board b in mode m with max, run to its end without
\* regard to any iteration order
Reference(b, m, max) == Run(StartSearch(b, m, max))

\* C24: whatever order the set of empty positions is iterated in at each
\* call, a search that has ended has returned the one value, left the one
\* board and collected the one list of solutions, in the one order, that its
\* input board and max determine; so two runs on equal boards agree.
C24_ResultIndependentOfOrder ==
    search.pc = "done"
        => LET ref == Reference(search.orig, search.mode,
                                search.max_solutions)
           IN  /\ search.retval = ref.retval
               /\ search.work = ref.work
               /\ search.solutions = ref.solutions

\* solve_all has ended with two solutions on a board with more than 20
\* empty cells: the order of the solutions is part of the result
C24_Witness ==
    /\ Done("all")
    /\ Len(search.solutions) = 2
    /\ Holes(search.orig) > 20
    /\ search.solutions
          = Reference(search.orig, "all", search.max_solutions).solutions

\* ------------------------------------------------------------------------
\* Claims about the substitutions of generate (specification SpecGen)
\* ------------------------------------------------------------------------
\* b has a full legal completion: the one solve() finds on it
HasCompletion(b) ==
    LET r == solve(b)
    IN  /\ r.value
        /\ Full(r.board)
        /\ NoConflict(r.board)
        /\ Keeps(b, r.board)

\* C25: in generate the shuffled candidate list of the chosen cell is never
\* exhausted (the failure "No possible value while generating" is not
\* reached), the board has a full legal completion after the diagonal is
\* filled and after each accepted substitution, so the final solve() returns
\* true and the board returned is full.
C25_SubstitutionAlwaysFindsValue ==
    /\ gpc # "panicked"
    /\ gpc = "pick" => HasCompletion(board)
    /\ gpc = "generated" => Full(board)

\* a substitution has been accepted after a first candidate of its cell was
\* rejected: two candidates are gone from the list of the cell
C25_Witness ==
    /\ gpc = "pick"
    /\ gen.sustitutions > 0
    /\ board[gen.pos] # 0
    /\ Len(gen.possible) + 2
          <= Cardinality({v \in 1 .. 9 : Fits(board, gen.pos, v)})
    /\ HasCompletion(board)

\* ------------------------------------------------------------------------
\* Claims about a failed solve (specification Spec)
\* ------------------------------------------------------------------------
\* C26: when solve() returns false the board is exactly as it was before the
\* call: every originally filled cell holds its original value and every
\* originally empty cell is empty again.
C26_FailedSolveRestoresBoard ==
    Done("solve") /\ search.retval = FALSE
        => \A p \in Positions :
              /\ search.orig[p] # 0 => board[p] = search.orig[p]
              /\ search.orig[p] = 0 => board[p] = 0

\* solve has returned false on a board with more than 20 empty cells, each
\* of which had a digit that fits: the search had to write into the board to
\* find out
C26_Witness ==
    /\ Done("solve")
    /\ search.retval = FALSE
    /\ Holes(search.orig) > 20
    /\ board = search.orig
    /\ \A p \in EmptyCells(search.orig) :
          \E v \in 1 .. 9 : Fits(search.orig, p, v)

\* ------------------------------------------------------------------------
\* Claims about the puzzle and its solved board (specification SpecPuzzle)
\* ------------------------------------------------------------------------
\* the removal tried in this step of the hole-digging is rejected
RemovalRejected ==
    /\ gpc = "dig"
    /\ dig'.positions # dig.positions
    /\ dig'.removed = dig.removed

\* every non-empty cell of the puzzle b holds the value of the same cell of
\* the solved board c, and c is full and legal
Agrees(b, c) ==
    /\ \A p \in Positions : b[p] # 0 => b[p] = c[p]
    /\ Full(c)
    /\ NoConflict(c)

\* C27: at every step of the hole-digging and in the puzzle returned, every
\* non-empty cell of the puzzle holds the value of the same cell of the
\* generated solved board, which is full and legal and so a completion of
\* the puzzle; a removal that is rejected puts back exactly the value
\* removed, leaving the puzzle as it was.
C27_PuzzleAgreesWithSolution ==
    [][/\ gpc' \in {"dig", "dug"} => Agrees(board', dig'.solution)
       /\ RemovalRejected => board' = board]_vars

\* a removal has been rejected after others were accepted: a cell the loop
\* has already visited holds its value of the solved board again
C27_Witness ==
    /\ gpc \in {"dig", "dug"}
    /\ cfg.unique
    /\ dig.removed >= 25
    /\ \E p \in Positions \ Range(dig.positions) :
          board[p] # 0 /\ board[p] = dig.solution[p]

====
